---- MODULE Spec2Model ----
(***************************************************************************)
(* Model of cmd/ll2go (main.go): main calls ll2go on each of its           *)
(* arguments; ll2go parses the LLVM IR file and translates the functions  *)
(* of the module one by one.  For each function it reads the control      *)
(* flow primitives of the function (parsePrims), then funcDecl seeds the  *)
(* registry d.blocks, records the outgoing PHI values in the predecessor  *)
(* blocks, merges the blocks of each primitive into one conceptual block  *)
(* and, when a single block remains, makes its statements the body.       *)
(*                                                                         *)
(* d.prim, d.insts, d.term, d.goType and primitive.Primitive are not part *)
(* of main.go; they are modelled from the specification (sections 3, 4.2, *)
(* 4.3).                                                                   *)
(***************************************************************************)
EXTENDS Integers, Sequences, FiniteSets, TLC

VARIABLES
    args,     \* flag.Args(): the LLVM IR files named on the command line (input)
    stdout,   \* the number of declarations os.Stdout takes before it fails (input)
    ai,       \* index of the argument main is at
    printed,  \* what was written to os.Stdout
    module,   \* module.Funcs: the functions asm.ParseFile returned
    feeds,    \* the primitive feeds in the directory srcName_graphs
    pc,       \* position of the program
    fi,       \* index of the function ll2go is translating
    prims,    \* the primitives parsePrims returned for the function
    blocks,   \* d.blocks: basic block label -> conceptual basic block
    bi,       \* PHI recording: index of the block in f.Blocks
    ii,       \* PHI recording: index of the instruction in block.Insts
    pi,       \* index of the primitive being recovered
    pend,     \* the primitive being merged: nodes still to delete, its block
    before,   \* history: d.blocks when the current primitive was taken up
    fresh,    \* number of labels allocated to primitive blocks so far
    decls,    \* file.Decls
    err,      \* the error ll2go returned (main: log.Fatalf), or the panic
    steps     \* history: steps of control flow recovery on the function

vars == <<args, stdout, ai, printed, module, feeds, pc, fi, prims, blocks, bi,
          ii, pi, pend, before, fresh, decls, err, steps>>

----------------------------------------------------------------------------
(* Bounds of the inputs.                                                   *)

MaxBlocks == 3    \* basic blocks of a function
MaxPhis == 2      \* PHI instructions of a basic block
MaxInsts == 2     \* non-PHI instructions of a basic block
MaxPrims == 2     \* primitives of a feed
MaxMembers == 2   \* nodes of a primitive
MaxFuncs == 2     \* functions of a module
MaxFiles == 2     \* arguments of the command line

----------------------------------------------------------------------------
(* Helpers on sequences and functions.                                     *)

Range(s) == {s[i] : i \in 1..Len(s)}

RECURSIVE Flatten(_)
Flatten(ss) == IF ss = <<>> THEN <<>> ELSE Head(ss) \o Flatten(Tail(ss))

\* The ascending sequence of the numbers of S.
RECURSIVE Ascending(_)
Ascending(S) ==
    IF S = {} THEN <<>>
    ELSE LET m == CHOOSE x \in S : \A y \in S : x <= y
         IN <<m>> \o Ascending(S \ {m})

\* Injective sequences over S with lo..hi elements.
InjSeqs(S, lo, hi) ==
    UNION {{s \in [1..k -> S] : \A i, j \in 1..k : i # j => s[i] # s[j]} :
           k \in lo..hi}

\* Variant: nothing is deleted.
MutDeleteNothing(m, key) == m

\* Go's delete(m, key): no-op when the key is absent.
Delete(m, key) == [l \in DOMAIN m \ {key} |-> m[l]]

\* Go's m[key] = v.
Store(m, key, v) == [l \in DOMAIN m \cup {key} |-> IF l = key THEN v ELSE m[l]]

----------------------------------------------------------------------------
(* LLVM IR values, instructions, terminators, blocks.                      *)

Lbl(i) == "L" \o ToString(i)          \* name of the i-th basic block

\* A reference to a block or to a local is a pointer: it is kept as the name
\* last read through it (Succs, Pred, Name) and the place it points to (To:
\* the index of the block in f.Blocks; At: <<i>> for the i-th parameter,
\* <<b, k>> for the k-th instruction of block b); 0 and <<>> point to
\* nothing the function holds.  An unnamed local has the name "".

IntC(x) == [kind |-> "int", X |-> x]              \* *constant.Int
FloatC(x) == [kind |-> "float", X |-> x]          \* *constant.Float
MetadataV == [kind |-> "metadata"]                \* neither named nor constant
LocalV(name) == [kind |-> "local", Name |-> name, At |-> <<>>] \* a local value.Named
LocalAt(name, at) == [kind |-> "local", Name |-> name, At |-> at]
GlobalV(name) == [kind |-> "global", Name |-> name] \* *ir.Global

\* The dynamic type of a value implements value.Named, constant.Constant.
IsNamed(v) == v.kind \in {"global", "function", "local"}
IsConstant(v) == v.kind \in {"global", "function", "int", "float", "null", "undef"}

Ret == [kind |-> "ret", Succs |-> <<>>, To |-> <<>>]
Br(t) == [kind |-> "br", Succs |-> <<Lbl(t)>>, To |-> <<t>>]
CondBr(c, t, e) ==
    [kind |-> "condbr", Cond |-> c, Succs |-> <<Lbl(t), Lbl(e)>>, To |-> <<t, e>>]
\* A merged block has no terminator.
NoTerm == [kind |-> "none", Succs |-> <<>>, To |-> <<>>]

Phi(name, incs) == [kind |-> "phi", Name |-> name, Incs |-> incs]
Inc(x, p) == [X |-> x, Pred |-> Lbl(p), To |-> p]
Add(name, x, y) == [kind |-> "add", Name |-> name, Ops |-> <<x, y>>]

IsPhi(inst) == inst.kind = "phi"

----------------------------------------------------------------------------
(* Local IDs (main.go:79-80).                                              *)

\* The function with the names pn of its parameters, bn of its blocks and
\* nm of its instructions: every name read through a pointer to one of them
\* is the new name.
rename(fun, pn, bn, nm) ==
    LET blk(name, to) == IF to \in 1..Len(fun.Blocks) THEN bn[to] ELSE name
        val(v) ==
            IF v.kind # "local" THEN v
            ELSE IF Len(v.At) = 2 THEN [v EXCEPT !.Name = nm[v.At[1]][v.At[2]]]
            ELSE IF Len(v.At) = 1 THEN [v EXCEPT !.Name = pn[v.At[1]]]
            ELSE v
        trm(t) ==
            LET t1 == [t EXCEPT !.Succs = [j \in 1..Len(t.Succs) |-> blk(t.Succs[j], t.To[j])]]
            IN IF t.kind = "condbr" THEN [t1 EXCEPT !.Cond = val(t.Cond)] ELSE t1
        inc(i) == [i EXCEPT !.X = val(i.X), !.Pred = blk(i.Pred, i.To)]
        ins(b, k) ==
            LET i == fun.Blocks[b].Insts[k]
            IN IF IsPhi(i)
               THEN [i EXCEPT !.Name = nm[b][k],
                              !.Incs = [j \in 1..Len(i.Incs) |-> inc(i.Incs[j])]]
               ELSE [i EXCEPT !.Name = nm[b][k],
                              !.Ops = [j \in 1..Len(i.Ops) |-> val(i.Ops[j])]]
    IN [fun EXCEPT
          !.Params = pn,
          !.Blocks = [b \in 1..Len(fun.Blocks) |->
                        [Name |-> bn[b],
                         Insts |-> [k \in 1..Len(fun.Blocks[b].Insts) |-> ins(b, k)],
                         Term |-> trm(fun.Blocks[b].Term)]]]

\* f.String() generates the local IDs: the unnamed parameters, blocks and
\* instructions of the function are numbered from 0, the parameters first,
\* then block after block, a block before its instructions; a local that
\* has a name keeps it.
String(fun) ==
    LET unnamed(name) == name = ""
        params == Cardinality({i \in 1..Len(fun.Params) : unnamed(fun.Params[i])})
        instsIn(b, k) ==
            Cardinality({j \in 1..k : unnamed(fun.Blocks[b].Insts[j].Name)})
        RECURSIVE upTo(_)
        \* the unnamed locals of the parameters and of the blocks 1..b
        upTo(b) ==
            IF b = 0 THEN params
            ELSE upTo(b - 1) + (IF unnamed(fun.Blocks[b].Name) THEN 1 ELSE 0)
                 + instsIn(b, Len(fun.Blocks[b].Insts))
        paramID(i) == Cardinality({j \in 1..(i - 1) : unnamed(fun.Params[j])})
        blockID(b) == upTo(b - 1)
        instID(b, k) ==
            upTo(b - 1) + (IF unnamed(fun.Blocks[b].Name) THEN 1 ELSE 0) + instsIn(b, k - 1)
    IN rename(fun,
          [i \in 1..Len(fun.Params) |->
              IF unnamed(fun.Params[i]) THEN ToString(paramID(i)) ELSE fun.Params[i]],
          [b \in 1..Len(fun.Blocks) |->
              IF unnamed(fun.Blocks[b].Name) THEN ToString(blockID(b))
              ELSE fun.Blocks[b].Name],
          [b \in 1..Len(fun.Blocks) |-> [k \in 1..Len(fun.Blocks[b].Insts) |->
              IF unnamed(fun.Blocks[b].Insts[k].Name) THEN ToString(instID(b, k))
              ELSE fun.Blocks[b].Insts[k].Name]])

----------------------------------------------------------------------------
(* Identifiers and values (main.go:152-188).                               *)

\* global: the Go identifier of a global is its name.
global(name) == [ident |-> name]

\* local: the Go identifier of a local is its name prefixed with "_".
local(name) == [ident |-> "_" \o name]

\* value: a named value becomes an identifier, an integer constant a
\* literal; for any other constant and any other value, value panics.
value(v) ==
    IF IsNamed(v)
    THEN IF v.kind \in {"global", "function"}
         THEN global(v.Name)
         ELSE local(v.Name)
    ELSE IF IsConstant(v)
    THEN IF v.kind = "int"
         THEN [lit |-> "INT", Value |-> ToString(v.X)]
         ELSE [panic |-> "support for constant value " \o v.kind \o " not yet implemented"]
    ELSE [panic |-> "support for value " \o v.kind \o " not yet implemented"]

\* The call of value panicked.
Panicked(e) == "panic" \in DOMAIN e

\* The assignment statement of one incoming value of a PHI (main.go:110-114).
assignStmt(phi, inc) ==
    [stmt |-> "assign", Lhs |-> local(phi.Name), Rhs |-> value(inc.X)]

----------------------------------------------------------------------------
(* Statement translation: d.insts, d.term, d.goType (not in main.go).      *)

\* One assignment per non-PHI instruction, in instruction order.
instStmt(inst) ==
    [stmt |-> "assign", Lhs |-> local(inst.Name),
     Rhs |-> [op |-> inst.kind, args |-> [i \in 1..Len(inst.Ops) |-> value(inst.Ops[i])]]]

insts(is) ==
    LET nonphi == SelectSeq(is, LAMBDA i : ~IsPhi(i))
    IN [k \in 1..Len(nonphi) |-> instStmt(nonphi[k])]

\* The control statement of a terminator.
term(t) ==
    CASE t.kind = "ret" -> [stmt |-> "return"]
      [] t.kind = "br" -> [stmt |-> "goto", Target |-> t.Succs[1]]
      [] t.kind = "condbr" ->
            [stmt |-> "ifgoto", Cond |-> value(t.Cond), Target |-> t.Succs[1],
             Else |-> t.Succs[2]]
      [] t.kind = "none" -> [stmt |-> "fallthrough"]

\* Integer types by bit width, function types by parameters and result.
goType(sig) ==
    [Params |-> [i \in 1..Len(sig.Params) |-> "int" \o ToString(sig.Params[i])],
     Results |-> "int" \o ToString(sig.Ret)]

----------------------------------------------------------------------------
(* Conceptual basic blocks (main.go:190-209).                              *)

\* &basicBlock{BasicBlock: block}: no statements, no outgoing PHI values.
basicBlock(block) ==
    [Name |-> block.Name, Insts |-> block.Insts, Term |-> block.Term,
     stmts |-> <<>>, out |-> <<>>]

\* stmts: instructions, then recorded statements, then outgoing PHI values.
stmts(block) == insts(block.Insts) \o block.stmts \o block.out

----------------------------------------------------------------------------
(* Control flow primitives: primitive.Primitive and d.prim (not in         *)
(* main.go; specification sections 3 and 4.2).                             *)

Primitive(kind, nodes) == [Prim |-> kind, Nodes |-> nodes]

\* The test of a block's terminator.
condOf(t) ==
    IF t.kind = "condbr" THEN value(t.Cond) ELSE [lit |-> "BOOL", Value |-> "true"]

\* The one structured statement of a primitive, its members taken in the
\* declared member order.
synth(reg, p) ==
    LET parts == [i \in 1..Len(p.Nodes) |-> stmts(reg[p.Nodes[i]])]
    IN CASE p.Prim = "seq" -> [stmt |-> "seq", List |-> Flatten(parts)]
         [] p.Prim = "if" ->
               [stmt |-> "if", Init |-> parts[1],
                Cond |-> condOf(reg[p.Nodes[1]].Term),
                Body |-> Flatten(Tail(parts))]
         [] OTHER -> [stmt |-> p.Prim, List |-> Flatten(parts)]

\* prim: resolve every member against the registry (a missing one is an
\* UnresolvedReference error), then build the block of the primitive, under
\* the freshly allocated label name, holding the synthesized statement.
prim(reg, p, name) ==
    LET missing == {i \in 1..Len(p.Nodes) : p.Nodes[i] \notin DOMAIN reg}
    IN IF missing # {}
       THEN [ok |-> FALSE,
             err |-> [kind |-> "UnresolvedReference",
                      node |-> p.Nodes[CHOOSE i \in missing : \A j \in missing : i <= j]]]
       ELSE [ok |-> TRUE,
             block |-> [Name |-> name, Insts |-> <<>>, Term |-> NoTerm,
                        stmts |-> <<synth(reg, p)>>, out |-> <<>>]]

\* The label allocated to the k-th primitive block of a function of n blocks.
freshLabel(n, k) == Lbl(n + k)

----------------------------------------------------------------------------
(* The inputs: functions, feeds and modules.                               *)

\* The terminators block b of a function of n blocks may end in: the last
\* block returns, the others branch forward.
TermChoices(b, n) ==
    IF b = n THEN {Ret}
    ELSE {Br(t) : t \in (b + 1)..n}
         \cup {CondBr(LocalV("c" \o ToString(b)), b + 1, t) : t \in (b + 2)..n}

CFGs(n) ==
    {c \in [1..n -> UNION {TermChoices(b, n) : b \in 1..n}] :
        \A b \in 1..n : c[b] \in TermChoices(b, n)}

\* The blocks that branch to block m.
Preds(cfg, m) == {b \in DOMAIN cfg : Lbl(m) \in Range(cfg[b].Succs)}

PredModes == {"exact", "missing", "extra", "dangling"}

\* The predecessors a PHI of block m names: its actual predecessors, or
\* one of them missing, or one more block, or a label of no block.
PhiPreds(cfg, m, mode) ==
    LET n == Len(cfg)
        ps == Preds(cfg, m)
        others == (1..n) \ ps
    IN CASE mode = "missing" /\ ps # {} ->
               Ascending(ps \ {CHOOSE x \in ps : \A y \in ps : x <= y})
         [] mode = "extra" /\ others # {} ->
               Ascending(ps) \o <<CHOOSE x \in others : \A y \in others : x <= y>>
         [] mode = "dangling" -> Ascending(ps) \o <<n + 1>>
         [] OTHER -> Ascending(ps)

ValModes == {"plain", "chain", "unsupported"}

\* The incoming value of the k-th PHI of block m on its j-th edge, from
\* block p; the PHIs of the block are named pre1, pre2, ...  In "chain" the
\* first edge gives d1 the constant 1 and d(k) the value of d(k-1), the PHI
\* before it in block m; the other edges give d(k) the local b(k).  In
\* "unsupported" the first PHI has a floating point constant on its second
\* edge and the later PHIs a value that is neither named nor constant.
IncValue(pre, mode, m, k, j, p) ==
    IF mode = "chain"
    THEN IF j = 1
         THEN IF k = 1 THEN IntC(1)
              ELSE LocalAt(pre \o ToString(k - 1), <<m, k - 1>>)
         ELSE LocalV("b" \o ToString(k))
    ELSE IF mode = "unsupported"
    THEN IF k = 1
         THEN IF j = 1 THEN IntC(p) ELSE FloatC(p)
         ELSE MetadataV
    ELSE IF k = 1 THEN IntC(p) ELSE GlobalV("g" \o ToString(k))

\* The nph PHIs pre1, pre2, ... at the head of block m.
PhisOf(pre, cfg, m, nph, predMode, valMode) ==
    LET ps == PhiPreds(cfg, m, predMode)
    IN [k \in 1..nph |->
          Phi(pre \o ToString(k),
              [j \in 1..Len(ps) |->
                  Inc(IncValue(pre, valMode, m, k, j, ps[j]), ps[j])])]

Phis(cfg, m, nph, predMode, valMode) == PhisOf("d", cfg, m, nph, predMode, valMode)

Adds(b, ni) ==
    [j \in 1..ni |->
        Add("x" \o ToString(b) \o ToString(j), IntC(j), LocalAt("n", <<1>>))]

\* A function of one parameter and n blocks with control flow cfg, nph PHIs
\* d1, d2, ... at the head of block m (none when m = 0), nph PHIs e1, e2,
\* ... at the head of another block m2 (none when m2 = 0) and ni other
\* instructions, which add to the parameter, in every block.
MkFuncPhis(name, cfg, m, m2, nph, predMode, valMode, ni) ==
    [Name |-> name,
     Sig |-> [Params |-> <<32>>, Ret |-> 32],
     Params |-> <<"n">>,
     Blocks |-> [b \in 1..Len(cfg) |->
                   [Name |-> Lbl(b),
                    Insts |-> (IF b = m THEN Phis(cfg, m, nph, predMode, valMode)
                               ELSE IF b = m2
                               THEN PhisOf("e", cfg, m2, nph, predMode, valMode)
                               ELSE <<>>) \o Adds(b, ni),
                    Term |-> cfg[b]]]]

\* The function with PHIs in block m only.
MkFunc(name, cfg, m, nph, predMode, valMode, ni) ==
    MkFuncPhis(name, cfg, m, 0, nph, predMode, valMode, ni)

\* Every block branches to the next one.
Chain(n) == [b \in 1..n |-> IF b = n THEN Ret ELSE Br(b + 1)]

\* A declaration without body.
DeclFunc(name) == MkFunc(name, <<>>, 0, 0, "exact", "plain", 0)

\* A chain of n blocks whose last block holds one PHI.
ChainFunc(name, n) == MkFunc(name, Chain(n), n, 1, "exact", "chain", 1)

Kinds == {"seq", "if"}

\* The primitive that merges all n blocks of a function, in block order.
SeqAll(n) == Primitive("seq", [i \in 1..n |-> Lbl(i)])

\* The function as the parser returns it when its source gives no name to
\* the parameter (noParam) and to the first u blocks and their instructions.
Unname(fun, u, noParam) ==
    rename(fun,
        [i \in 1..Len(fun.Params) |-> IF noParam THEN "" ELSE fun.Params[i]],
        [b \in 1..Len(fun.Blocks) |-> IF b <= u THEN "" ELSE fun.Blocks[b].Name],
        [b \in 1..Len(fun.Blocks) |-> [k \in 1..Len(fun.Blocks[b].Insts) |->
            IF b <= u THEN "" ELSE fun.Blocks[b].Insts[k].Name]])

\* The primitive that merges all blocks of fun, named by the labels the
\* blocks have once the local IDs are generated.
SeqAllOf(fun) ==
    Primitive("seq", [i \in 1..Len(fun.Blocks) |-> String(fun).Blocks[i].Name])

\* The primitives of kind k that may stand at place i of the feed of a
\* function of n blocks: up to MaxMembers nodes among the labels that may
\* exist by then.
PrimsAt(n, i, k) ==
    LET labels == 1..(n + i - 1)
        sets == {S \in SUBSET labels : Cardinality(S) \in 1..MaxMembers}
    IN {Primitive(k, [j \in 1..Cardinality(S) |-> Lbl(Ascending(S)[j])]) : S \in sets}

\* The feeds of len primitives of kind k, from place i on.
RECURSIVE PrimListsFrom(_, _, _, _)
PrimListsFrom(n, i, len, k) ==
    IF len = 0 THEN {<<>>}
    ELSE {<<p>> \o rest :
            p \in PrimsAt(n, i, k), rest \in PrimListsFrom(n, i + 1, len - 1, k)}

\* One primitive over the blocks of a function, in any declared order.
OrderLists(n) ==
    {<<Primitive(k, [j \in 1..Len(s) |-> Lbl(s[j])])>> :
        k \in Kinds, s \in InjSeqs(1..n, 1, n)}

\* A feed on the file system: the file is absent, cannot be decoded, or
\* holds a list of primitives.
Feed(ps) == [ok |-> TRUE, why |-> "", prims |-> ps]
NoFeed(why) == [ok |-> FALSE, why |-> why, prims |-> <<>>]

\* An argument of the command line: the file is absent or is not LLVM IR
\* assembly, or holds a module; fds are the feeds of its functions.
File(funcs, fds) == [ok |-> TRUE, why |-> "", Funcs |-> funcs, feeds |-> fds]
NoFile(why) == [ok |-> FALSE, why |-> why, Funcs |-> <<>>, feeds |-> <<>>]

\* Functions with every control flow, placement and shape of PHIs, in one
\* block or in two (the PHIs of two blocks name their actual predecessors),
\* with no primitive or with the one that merges all blocks.
InitPhi ==
    \E n \in 1..MaxBlocks : \E cfg \in CFGs(n) :
    \E m \in 0..n, m2 \in 0..n, nph \in {1, MaxPhis}, pm \in PredModes,
       vm \in ValModes, ni \in {0, MaxInsts}, merge \in BOOLEAN :
        /\ m = 0 => (nph = 1 /\ pm = "exact" /\ vm = "plain")
        /\ m2 # 0 => (m >= 1 /\ m2 > m /\ pm = "exact" /\ vm = "plain")
        /\ args = <<File(<<MkFuncPhis("f1", cfg, m, m2, nph, pm, vm, ni)>>,
                         <<Feed(IF merge THEN <<SeqAll(n)>> ELSE <<>>)>>)>>
        /\ stdout = 1

\* Functions with unnamed locals: the parameter or not, the first blocks
\* and their instructions, with no primitive or the one that merges all
\* blocks.
InitUnnamed ==
    \E n \in 1..MaxBlocks : \E cfg \in CFGs(n) :
    \E m \in 0..n, u \in 1..n, noParam \in BOOLEAN, ni \in {0, MaxInsts},
       merge \in BOOLEAN :
        LET g == Unname(MkFunc("f1", cfg, m, MaxPhis, "exact", "chain", ni), u, noParam)
        IN /\ args = <<File(<<g>>, <<Feed(IF merge THEN <<SeqAllOf(g)>> ELSE <<>>)>>)>>
           /\ stdout = 1

\* A chain of blocks with every feed of primitives, the longest feeds on
\* the chains that are not the longest.
InitReduce ==
    \E n \in 1..MaxBlocks :
        /\ \/ \E len \in 0..MaxPrims, k \in Kinds :
                 /\ n + len <= MaxBlocks + 2
                 /\ \E ps \in PrimListsFrom(n, 1, len, k) :
                       args = <<File(<<ChainFunc("f1", n)>>, <<Feed(ps)>>)>>
           \/ \E ps \in OrderLists(n) :
                 args = <<File(<<ChainFunc("f1", n)>>, <<Feed(ps)>>)>>
        /\ stdout = 1

\* The functions and feeds of modules of several functions.
ModuleFunc(i) ==
    {DeclFunc("f" \o ToString(i)), ChainFunc("f" \o ToString(i), 1),
     ChainFunc("f" \o ToString(i), 2)}

ModuleFeeds(g) ==
    {NoFeed("open"), NoFeed("decode"), Feed(<<>>), Feed(<<SeqAll(Len(g.Blocks))>>)}

InitModule ==
    \E len \in 0..MaxFuncs :
    \E fs \in [1..len -> UNION {ModuleFunc(i) : i \in 1..len}],
       fds \in [1..len -> UNION {ModuleFeeds(g) : g \in ModuleFunc(1)}] :
        /\ \A i \in 1..len : fs[i] \in ModuleFunc(i)
        /\ \A i \in 1..len : fds[i] \in ModuleFeeds(fs[i])
        /\ args = <<File(fs, fds)>>
        /\ stdout \in 0..len

\* The files of command lines of several arguments.
ArgFiles ==
    {NoFile("open"), NoFile("syntax"), File(<<>>, <<>>),
     File(<<DeclFunc("f1")>>, <<Feed(<<>>)>>),
     File(<<DeclFunc("f1")>>, <<NoFeed("open")>>),
     File(<<ChainFunc("f1", 1)>>, <<Feed(<<>>)>>)}

InitArgs ==
    \E n \in 0..MaxFiles :
        /\ args \in [1..n -> ArgFiles]
        /\ stdout \in 0..n

----------------------------------------------------------------------------
(* The program.                                                            *)

NoErr == [kind |-> "nil"]
NoPend == [nodes |-> {}, block |-> [Name |-> ""]]

\* main after flag.Parse: no file is parsed yet, nothing is printed.
Init ==
    /\ InitPhi \/ InitUnnamed \/ InitReduce \/ InitModule \/ InitArgs
    /\ pc = "main"
    /\ ai = 1
    /\ printed = <<>>
    /\ module = <<>>
    /\ feeds = <<>>
    /\ fi = 1
    /\ prims = <<>>
    /\ blocks = <<>>
    /\ bi = 1
    /\ ii = 1
    /\ pi = 1
    /\ pend = NoPend
    /\ before = <<>>
    /\ fresh = 0
    /\ decls = <<>>
    /\ err = NoErr
    /\ steps = 0

\* The function ll2go is translating: as parsed until funcDecl is called on
\* it, with its local IDs from then on.
f == module[fi]

\* ll2go returns err; main ends the process with log.Fatalf.
Fatal(e) ==
    /\ pc' = "fatal"
    /\ err' = e

\* A panic ends the process.
Panic(msg) ==
    /\ pc' = "panic"
    /\ err' = [kind |-> "panic", msg |-> msg]

\* ll2go appends the declaration to file.Decls and prints it: it goes on
\* with the next function, or printer.Fprint fails, with nothing or a part
\* of the declaration written, and ll2go returns the error.
Emit(fn) ==
    /\ decls' = Append(decls, fn)
    /\ IF Len(printed) < stdout
       THEN /\ printed' = Append(printed, [fn |-> fn, whole |-> TRUE])
            /\ fi' = fi + 1
            /\ pc' = "parse"
            /\ err' = err
       ELSE /\ \E part \in BOOLEAN :
                  printed' = IF part THEN Append(printed, [fn |-> fn, whole |-> FALSE])
                                     ELSE printed
            /\ fi' = fi
            /\ Fatal([kind |-> "WriteError"])

\* asm.ParseFile parses the file (main.go:36-44): ll2go has the functions of
\* the module, the name of the feed directory, a new decompiler and a file
\* without declarations.
ParseFile ==
    /\ pc = "main"
    /\ ai <= Len(args)
    /\ args[ai].ok
    /\ module' = args[ai].Funcs
    /\ feeds' = args[ai].feeds
    /\ blocks' = <<>>
    /\ decls' = <<>>
    /\ fi' = 1
    /\ pc' = "parse"
    /\ UNCHANGED <<args, stdout, ai, printed, prims, bi, ii, pi, pend, before, fresh, err, steps>>

\* asm.ParseFile fails: ll2go returns the error before it looks at any
\* function (main.go:36-39).
ParseFileFail ==
    /\ pc = "main"
    /\ ai <= Len(args)
    /\ ~args[ai].ok
    /\ Fatal([kind |-> "ParseError", why |-> args[ai].why])
    /\ UNCHANGED <<args, stdout, ai, printed, module, feeds, fi, prims, blocks, bi, ii, pi, pend, before, fresh, decls, steps>>

\* main: ll2go was called on every argument.
Exit ==
    /\ pc = "main"
    /\ ai > Len(args)
    /\ pc' = "done"
    /\ UNCHANGED <<args, stdout, ai, printed, module, feeds, fi, prims, blocks, bi, ii, pi, pend, before, fresh, decls, err, steps>>

\* parsePrims: the feed of the function is opened and decoded.
ParsePrims ==
    /\ pc = "parse"
    /\ fi <= Len(module)
    /\ feeds[fi].ok
    /\ prims' = feeds[fi].prims
    /\ pc' = "funcDecl"
    /\ UNCHANGED <<args, stdout, ai, printed, module, feeds, fi, blocks, bi, ii, pi, pend, before, fresh, decls, err, steps>>

\* Variant: ll2go skips the function whose feed cannot be read.
MutParsePrimsFailSkip ==
    /\ pc = "parse"
    /\ fi <= Len(module)
    /\ ~feeds[fi].ok
    /\ fi' = fi + 1
    /\ UNCHANGED <<args, stdout, ai, printed, module, feeds, pc, prims, blocks, bi, ii, pi, pend, before, fresh, decls, err, steps>>

\* parsePrims fails (os.Open or Decode): ll2go returns the error.
ParsePrimsFail ==
    /\ pc = "parse"
    /\ fi <= Len(module)
    /\ ~feeds[fi].ok
    /\ Fatal([kind |-> "InputUnavailable", why |-> feeds[fi].why])
    /\ UNCHANGED <<args, stdout, ai, printed, module, feeds, fi, prims, blocks, bi, ii, pi, pend, before, fresh, decls, steps>>

\* ll2go: every function is translated; main goes on with the next
\* argument.
Return ==
    /\ pc = "parse"
    /\ fi > Len(module)
    /\ ai' = ai + 1
    /\ pc' = "main"
    /\ UNCHANGED <<args, stdout, printed, module, feeds, fi, prims, blocks, bi, ii, pi, pend, before, fresh, decls, err, steps>>

\* The declaration funcDecl recovers before the body (main.go:83-88).
funcHead(fun) == [Name |-> global(fun.Name), Type |-> goType(fun.Sig)]

\* funcDecl of a function without basic blocks: the local IDs are
\* generated, the declaration has no body.
FuncDeclNoBody ==
    /\ pc = "funcDecl"
    /\ module' = [module EXCEPT ![fi] = String(f)]
    /\ Len(String(f).Blocks) < 1
    /\ Emit([head |-> funcHead(String(f)), hasBody |-> FALSE, Body |-> <<>>])
    /\ UNCHANGED <<args, stdout, ai, feeds, prims, blocks, bi, ii, pi, pend, before, fresh, steps>>

\* Reset basic block mapping (main.go:93-97): of the blocks of one name the
\* last one stays in the map.
seed(fun) ==
    [l \in {fun.Blocks[i].Name : i \in 1..Len(fun.Blocks)} |->
        basicBlock(fun.Blocks[CHOOSE i \in 1..Len(fun.Blocks) :
            /\ fun.Blocks[i].Name = l
            /\ \A j \in 1..Len(fun.Blocks) : fun.Blocks[j].Name = l => j <= i])]

\* funcDecl of a function with basic blocks: the local IDs are generated
\* (main.go:79-80), the registry is seeded.
FuncDeclSeed ==
    /\ pc = "funcDecl"
    /\ module' = [module EXCEPT ![fi] = String(f)]
    /\ Len(String(f).Blocks) >= 1
    /\ blocks' = seed(String(f))
    /\ bi' = 1
    /\ ii' = 1
    /\ fresh' = 0
    /\ pc' = "phi"
    /\ steps' = 0
    /\ UNCHANGED <<args, stdout, ai, printed, feeds, fi, prims, pi, pend, before, decls, err>>

\* The registry after the incoming values incs[k..] of phi are appended to
\* the outgoing values of their predecessors (main.go:108-116).
RECURSIVE recordIncs(_, _, _, _)
recordIncs(reg, phi, incs, k) ==
    IF k > Len(incs) THEN reg
    ELSE LET pred == incs[k].Pred
         IN recordIncs(
                [reg EXCEPT ![pred].out = Append(@, assignStmt(phi, incs[k]))],
                phi, incs, k + 1)

\* The incoming value for which the loop body panics (main.go:109-115):
\* d.value panics on a value it does not support; d.blocks[inc.Pred.Name]
\* is nil for a label of no block and pred.out panics.
incPanics(reg, inc) == Panicked(value(inc.X)) \/ inc.Pred \notin DOMAIN reg

panicOf(inc) ==
    IF Panicked(value(inc.X)) THEN value(inc.X).panic
    ELSE "invalid memory address or nil pointer dereference"

\* Variant: the blocks are visited from the last to the first.
MutPhiBlockReverse(fun, b) == fun.Blocks[Len(fun.Blocks) + 1 - b]

\* The block the range over f.Blocks visits at its b-th turn (main.go:100).
phiBlock(fun, b) == fun.Blocks[b]

\* Record outgoing PHI values (main.go:99-118), one instruction at a time.
PhiSkip ==
    /\ pc = "phi"
    /\ bi <= Len(f.Blocks)
    /\ ii <= Len(phiBlock(f, bi).Insts)
    /\ ~IsPhi(phiBlock(f, bi).Insts[ii])
    /\ ii' = ii + 1
    /\ UNCHANGED <<args, stdout, ai, printed, module, feeds, pc, fi, prims, blocks, bi, pi, pend, before, fresh, decls, err, steps>>

PhiRecord ==
    /\ pc = "phi"
    /\ bi <= Len(f.Blocks)
    /\ ii <= Len(phiBlock(f, bi).Insts)
    /\ LET phi == phiBlock(f, bi).Insts[ii]
       IN /\ IsPhi(phi)
          /\ \A k \in 1..Len(phi.Incs) : ~incPanics(blocks, phi.Incs[k])
          /\ blocks' = recordIncs(blocks, phi, phi.Incs, 1)
    /\ ii' = ii + 1
    /\ UNCHANGED <<args, stdout, ai, printed, module, feeds, pc, fi, prims, bi, pi, pend, before, fresh, decls, err, steps>>

\* The loop body panics at the first incoming value it cannot record; the
\* values before it are recorded.
PhiPanic ==
    /\ pc = "phi"
    /\ bi <= Len(f.Blocks)
    /\ ii <= Len(phiBlock(f, bi).Insts)
    /\ LET phi == phiBlock(f, bi).Insts[ii]
       IN /\ IsPhi(phi)
          /\ \E k \in 1..Len(phi.Incs) :
                /\ incPanics(blocks, phi.Incs[k])
                /\ \A j \in 1..(k - 1) : ~incPanics(blocks, phi.Incs[j])
                /\ blocks' = recordIncs(blocks, phi, SubSeq(phi.Incs, 1, k - 1), 1)
                /\ Panic(panicOf(phi.Incs[k]))
    /\ UNCHANGED <<args, stdout, ai, printed, module, feeds, fi, prims, bi, ii, pi, pend, before, fresh, decls, steps>>

PhiNextBlock ==
    /\ pc = "phi"
    /\ bi <= Len(f.Blocks)
    /\ ii > Len(phiBlock(f, bi).Insts)
    /\ bi' = bi + 1
    /\ ii' = 1
    /\ UNCHANGED <<args, stdout, ai, printed, module, feeds, pc, fi, prims, blocks, pi, pend, before, fresh, decls, err, steps>>

PhiDone ==
    /\ pc = "phi"
    /\ bi > Len(f.Blocks)
    /\ pi' = 1
    /\ pc' = "prim"
    /\ UNCHANGED <<args, stdout, ai, printed, module, feeds, fi, prims, blocks, bi, ii, pend, before, fresh, decls, err, steps>>

\* Variant: the error of d.prim is not looked at; the primitive block is
\* built from the members found in the registry.
MutRecoverPrimIgnoreErr ==
    /\ pc = "prim"
    /\ pi <= Len(prims)
    /\ LET found == SelectSeq(prims[pi].Nodes, LAMBDA l : l \in DOMAIN blocks)
           r == prim(blocks, [prims[pi] EXCEPT !.Nodes = found],
                     freshLabel(Len(f.Blocks), fresh + 1))
       IN pend' = [nodes |-> Range(prims[pi].Nodes), block |-> r.block]
    /\ before' = blocks
    /\ fresh' = fresh + 1
    /\ pc' = "delete"
    /\ steps' = steps + 1
    /\ UNCHANGED <<args, stdout, ai, printed, module, feeds, fi, prims, blocks, bi, ii, pi, decls, err>>

\* Recover control flow primitives (main.go:120-125): d.prim merges the
\* blocks of the primitive, or fails and funcDecl returns the error.
RecoverPrim ==
    /\ pc = "prim"
    /\ pi <= Len(prims)
    /\ LET r == prim(blocks, prims[pi], freshLabel(Len(f.Blocks), fresh + 1))
       IN /\ r.ok
          /\ pend' = [nodes |-> Range(prims[pi].Nodes), block |-> r.block]
    /\ before' = blocks
    /\ fresh' = fresh + 1
    /\ pc' = "delete"
    /\ steps' = steps + 1
    /\ UNCHANGED <<args, stdout, ai, printed, module, feeds, fi, prims, blocks, bi, ii, pi, decls, err>>

RecoverPrimFail ==
    /\ pc = "prim"
    /\ pi <= Len(prims)
    /\ LET r == prim(blocks, prims[pi], freshLabel(Len(f.Blocks), fresh + 1))
       IN /\ ~r.ok
          /\ Fatal(r.err)
    /\ UNCHANGED <<args, stdout, ai, printed, module, feeds, fi, prims, blocks, bi, ii, pi, pend, before, fresh, decls, steps>>

\* Variant: the loop ends after the first node it visits.
MutDeleteNodeBreak ==
    /\ pc = "delete"
    /\ \E node \in pend.nodes :
          /\ blocks' = Delete(blocks, node)
          /\ pend' = [pend EXCEPT !.nodes = {}]
    /\ steps' = steps + 1
    /\ UNCHANGED <<args, stdout, ai, printed, module, feeds, pc, fi, prims, bi, ii, pi, before, fresh, decls, err>>

\* Delete merged basic blocks (main.go:126-129): range over prim.Nodes
\* visits the nodes in no particular order.
DeleteNode ==
    /\ pc = "delete"
    /\ \E node \in pend.nodes :
          /\ blocks' = Delete(blocks, node)
          /\ pend' = [pend EXCEPT !.nodes = @ \ {node}]
    /\ steps' = steps + 1
    /\ UNCHANGED <<args, stdout, ai, printed, module, feeds, pc, fi, prims, bi, ii, pi, before, fresh, decls, err>>

\* Variant: the primitive block is not added to the registry.
MutAddPrimBlockNoStore ==
    /\ pc = "delete"
    /\ pend.nodes = {}
    /\ pi' = pi + 1
    /\ pc' = "prim"
    /\ steps' = steps + 1
    /\ UNCHANGED <<args, stdout, ai, printed, module, feeds, fi, prims, blocks, bi, ii, pend, before, fresh, decls, err>>

\* Add primitive basic block (main.go:130-131).
AddPrimBlock ==
    /\ pc = "delete"
    /\ pend.nodes = {}
    /\ blocks' = Store(blocks, pend.block.Name, pend.block)
    /\ pi' = pi + 1
    /\ pc' = "prim"
    /\ steps' = steps + 1
    /\ UNCHANGED <<args, stdout, ai, printed, module, feeds, fi, prims, bi, ii, pend, before, fresh, decls, err>>

\* Variant: the error reports the expected number of blocks, not the found.
MutRecoveryFailedExpected ==
    /\ pc = "prim"
    /\ pi > Len(prims)
    /\ Cardinality(DOMAIN blocks) # 1
    /\ Fatal([kind |-> "ReductionIncomplete", got |-> 1])
    /\ UNCHANGED <<args, stdout, ai, printed, module, feeds, fi, prims, blocks, bi, ii, pi, pend, before, fresh, decls, steps>>

\* After control flow recovery a single basic block should remain
\* (main.go:134-138).
RecoveryFailed ==
    /\ pc = "prim"
    /\ pi > Len(prims)
    /\ Cardinality(DOMAIN blocks) # 1
    /\ Fatal([kind |-> "ReductionIncomplete", got |-> Cardinality(DOMAIN blocks)])
    /\ UNCHANGED <<args, stdout, ai, printed, module, feeds, fi, prims, blocks, bi, ii, pi, pend, before, fresh, decls, steps>>

\* The statements of the function body (main.go:144).
body(block) == Append(block.stmts, term(block.Term))

\* Recover function body (main.go:139-149): range over d.blocks leaves the
\* block visited last in block.
RecoverBody ==
    /\ pc = "prim"
    /\ pi > Len(prims)
    /\ Cardinality(DOMAIN blocks) = 1
    /\ \E l \in DOMAIN blocks :
          /\ blocks' = [blocks EXCEPT ![l].stmts = body(blocks[l])]
          /\ Emit([head |-> funcHead(f), hasBody |-> TRUE, Body |-> body(blocks[l])])
    /\ UNCHANGED <<args, stdout, ai, module, feeds, prims, bi, ii, pi, pend, before, fresh, steps>>

Next ==
    \/ ParseFile
    \/ ParseFileFail
    \/ Exit
    \/ ParsePrims
    \/ ParsePrimsFail
    \/ Return
    \/ FuncDeclNoBody
    \/ FuncDeclSeed
    \/ PhiSkip
    \/ PhiRecord
    \/ PhiPanic
    \/ PhiNextBlock
    \/ PhiDone
    \/ RecoverPrim
    \/ RecoverPrimFail
    \/ DeleteNode
    \/ AddPrimBlock
    \/ RecoveryFailed
    \/ RecoverBody

Spec == Init /\ [][Next]_vars

----------------------------------------------------------------------------
(* funcDecl as a function of its arguments, the nodes of a primitive       *)
(* deleted in their declared order: what the program is compared with.     *)

RECURSIVE refPhiInsts(_, _, _)
refPhiInsts(reg, is, k) ==
    IF k > Len(is) THEN reg
    ELSE refPhiInsts(IF IsPhi(is[k]) THEN recordIncs(reg, is[k], is[k].Incs, 1) ELSE reg,
                     is, k + 1)

RECURSIVE refPhiBlocks(_, _, _)
refPhiBlocks(reg, bs, k) ==
    IF k > Len(bs) THEN reg
    ELSE refPhiBlocks(refPhiInsts(reg, bs[k].Insts, 1), bs, k + 1)

RECURSIVE refDelete(_, _, _)
refDelete(reg, nodes, k) ==
    IF k > Len(nodes) THEN reg ELSE refDelete(Delete(reg, nodes[k]), nodes, k + 1)

\* The registry after the first k primitives, or the error of the first
\* primitive that fails.
RECURSIVE refReduce(_, _, _, _)
refReduce(reg, n, ps, k) ==
    IF k = 0 THEN [ok |-> TRUE, reg |-> reg]
    ELSE LET r == refReduce(reg, n, ps, k - 1)
         IN IF ~r.ok THEN r
            ELSE LET b == prim(r.reg, ps[k], freshLabel(n, k))
                 IN IF ~b.ok THEN [ok |-> FALSE, err |-> b.err]
                    ELSE [ok |-> TRUE,
                          reg |-> Store(refDelete(r.reg, ps[k].Nodes, 1),
                                        b.block.Name, b.block)]

\* Every incoming value of the PHIs of fun names a block of fun.
PredsKnown(fun) ==
    \A b \in 1..Len(fun.Blocks) : \A k \in 1..Len(fun.Blocks[b].Insts) :
        LET inst == fun.Blocks[b].Insts[k]
        IN IsPhi(inst) =>
              \A j \in 1..Len(inst.Incs) :
                  inst.Incs[j].Pred \in {fun.Blocks[i].Name : i \in 1..Len(fun.Blocks)}

\* Every incoming value of the PHIs of fun is one d.value supports.
ValuesKnown(fun) ==
    \A b \in 1..Len(fun.Blocks) : \A k \in 1..Len(fun.Blocks[b].Insts) :
        LET inst == fun.Blocks[b].Insts[k]
        IN IsPhi(inst) =>
              \A j \in 1..Len(inst.Incs) : ~Panicked(value(inst.Incs[j].X))

refFuncDecl(parsed, ps) ==
    LET fun == String(parsed)
    IN IF Len(fun.Blocks) < 1
       THEN [kind |-> "decl",
             fn |-> [head |-> funcHead(fun), hasBody |-> FALSE, Body |-> <<>>]]
       ELSE IF ~PredsKnown(fun) \/ ~ValuesKnown(fun) THEN [kind |-> "panic"]
       ELSE LET r == refReduce(refPhiBlocks(seed(fun), fun.Blocks, 1),
                               Len(fun.Blocks), ps, Len(ps))
            IN IF ~r.ok THEN [kind |-> "err", err |-> r.err]
               ELSE IF Cardinality(DOMAIN r.reg) # 1
               THEN [kind |-> "err",
                     err |-> [kind |-> "ReductionIncomplete",
                              got |-> Cardinality(DOMAIN r.reg)]]
               ELSE LET l == CHOOSE x \in DOMAIN r.reg : TRUE
                    IN [kind |-> "decl",
                        fn |-> [head |-> funcHead(fun), hasBody |-> TRUE,
                                Body |-> body(r.reg[l])]]

----------------------------------------------------------------------------
(* Vocabulary of the properties.                                           *)

\* funcDecl is at work on f, or has just failed on it.
InLoops == pc \in {"phi", "prim", "delete"}
FuncDeclFailed == pc = "fatal" /\ err.kind \in {"UnresolvedReference", "ReductionIncomplete"}
AfterLoop == pc = "prim" /\ pi > Len(prims)
AfterPhi == pc = "prim" /\ pi = 1 /\ fresh = 0

OrigLabels == {f.Blocks[i].Name : i \in 1..Len(f.Blocks)}
Members(i) == Range(prims[i].Nodes)
Referenced == UNION {Members(i) : i \in 1..Len(prims)}
Unreferenced == OrigLabels \ Referenced

\* The member-label sets of the primitives partition the block labels.
Partition ==
    /\ Len(prims) >= 1
    /\ \A i \in 1..Len(prims) : Members(i) # {} /\ Members(i) \subseteq OrigLabels
    /\ \A l \in OrigLabels : Cardinality({i \in 1..Len(prims) : l \in Members(i)}) = 1

\* The labels of the primitive blocks no later primitive names.
OpenRegions ==
    {freshLabel(Len(f.Blocks), k) : k \in
        {k \in 1..Len(prims) : \A j \in (k + 1)..Len(prims) :
            freshLabel(Len(f.Blocks), k) \notin Members(j)}}

\* The actual predecessors of the block named l.
TruePreds(fun, l) ==
    {fun.Blocks[b].Name : b \in
        {b \in 1..Len(fun.Blocks) : l \in Range(fun.Blocks[b].Term.Succs)}}

\* Every PHI names each actual predecessor of its block once, and no other.
WellFormed(fun) ==
    \A b \in 1..Len(fun.Blocks) : \A k \in 1..Len(fun.Blocks[b].Insts) :
        LET inst == fun.Blocks[b].Insts[k]
        IN IsPhi(inst) =>
              /\ {inst.Incs[j].Pred : j \in 1..Len(inst.Incs)} = TruePreds(fun, fun.Blocks[b].Name)
              /\ Len(inst.Incs) = Cardinality(TruePreds(fun, fun.Blocks[b].Name))

----------------------------------------------------------------------------
(* C1.  Reduction of a partition of the block labels.                      *)

\* C1 as stated: whenever the member-label sets of the primitives partition
\* the block labels of the function, whatever the number of primitives,
\* reduction does not fail and leaves exactly one block in the registry.
C1_PartitionLeavesOneBlock ==
    (fi <= Len(module) /\ Partition) =>
        /\ ~FuncDeclFailed
        /\ AfterLoop => Cardinality(DOMAIN blocks) = 1

\* The steps control flow recovery takes when no primitive fails: for each
\* primitive the call of d.prim, one delete per node, one insertion.
RECURSIVE RecoveryStepsOf(_)
RecoveryStepsOf(ps) ==
    IF ps = <<>> THEN 0
    ELSE Cardinality(Range(Head(ps).Nodes)) + 2 + RecoveryStepsOf(Tail(ps))

RecoverySteps == RecoveryStepsOf(prims)

\* C1 amended: when the member-label sets of the primitives partition the
\* block labels, no primitive fails, the loop ends (it is never stuck and
\* takes no more steps than the primitives and their nodes account for),
\* and the registry then holds as many blocks as there are primitives: one
\* block, and no "control flow recovery failed" error, exactly when there
\* is one primitive.
C1_PartitionLeavesOnePerPrimitive ==
    (fi <= Len(module) /\ Partition) =>
        /\ InLoops => (steps <= RecoverySteps /\ ENABLED Next)
        /\ AfterLoop => Cardinality(DOMAIN blocks) = Len(prims)
        /\ FuncDeclFailed =>
              /\ err = [kind |-> "ReductionIncomplete", got |-> Len(prims)]
              /\ Len(prims) # 1

C1_Witness ==
    /\ fi <= Len(module)
    /\ Partition
    /\ AfterLoop
    /\ Len(prims) = 1
    /\ Len(f.Blocks) >= 2
    /\ Cardinality(DOMAIN blocks) = 1

----------------------------------------------------------------------------
(* C2.  A block label no primitive names.                                  *)

\* C2 as stated: when the primitives never name some block label, funcDecl
\* fails with ReductionIncomplete, the registry holding the unreferenced
\* labels and one primitive block, the error reporting the number and the
\* labels of the remaining blocks.
C2_OmissionAlwaysFails ==
    (fi <= Len(module) /\ Unreferenced # {}) =>
        /\ AfterLoop => Cardinality(DOMAIN blocks) # 1
        /\ (pc = "fatal" /\ err.kind = "ReductionIncomplete") =>
              /\ \E r \in DOMAIN blocks \ OrigLabels :
                    DOMAIN blocks = Unreferenced \cup {r}
              /\ err.got = Cardinality(DOMAIN blocks)
              /\ "labels" \in DOMAIN err

\* C2 amended: when the feed has at least one primitive, the primitives
\* never name some block label and every primitive is merged, funcDecl
\* fails with ReductionIncomplete and gives no declaration; the registry
\* then holds exactly the unreferenced labels and the primitive blocks no
\* later primitive consumed (the last one at least), and the error reports
\* their number.
C2_OmissionFailsAfterPrimitives ==
    (fi <= Len(module) /\ Unreferenced # {} /\ Len(prims) >= 1) =>
        /\ AfterLoop => Cardinality(DOMAIN blocks) >= 2
        /\ (pc = "fatal" /\ err.kind = "ReductionIncomplete") =>
              /\ DOMAIN blocks = Unreferenced \cup OpenRegions
              /\ freshLabel(Len(f.Blocks), Len(prims)) \in DOMAIN blocks
              /\ err.got = Cardinality(DOMAIN blocks)
              /\ Len(decls) = fi - 1

C2_Witness ==
    /\ fi <= Len(module)
    /\ Unreferenced # {}
    /\ Len(prims) >= 1
    /\ pc = "fatal"
    /\ err.kind = "ReductionIncomplete"
    /\ err.got = Cardinality(Unreferenced) + 1

----------------------------------------------------------------------------
(* C3.  The assignments of an edge, run one after the other.               *)

\* The value of an expression of an outgoing assignment.
Eval(e, env) == IF "lit" \in DOMAIN e THEN e.Value ELSE env[e.ident]

\* The identifiers of a list of outgoing assignments.
IdentsOf(out) ==
    {out[k].Lhs.ident : k \in 1..Len(out)}
    \cup {out[k].Rhs.ident : k \in {k \in 1..Len(out) : "ident" \in DOMAIN out[k].Rhs}}

\* The values at the end of the predecessor block: d1 is 5.
EndOfBlock(ids) == [id \in ids |-> IF id = "_d1" THEN "5" ELSE "old" \o id]

\* The values after the assignments out[k..] are run in sequence.
RECURSIVE Exec(_, _, _)
Exec(out, env, k) ==
    IF k > Len(out) THEN env
    ELSE Exec(out, [env EXCEPT ![out[k].Lhs.ident] = Eval(out[k].Rhs, env)], k + 1)

\* C3: run in sequence from the values at the end of the predecessor block,
\* the outgoing assignments of every block give each PHI destination the
\* value its incoming value had at the end of the predecessor block (for
\* d1 = phi(A: 1, ...), d2 = phi(A: d1, ...) and d1 = 5: d2 = 5, d1 = 1).
C3_PhiSimultaneity ==
    (fi <= Len(module) /\ AfterPhi /\ WellFormed(f)) =>
        \A l \in DOMAIN blocks :
            LET out == blocks[l].out
                env == EndOfBlock(IdentsOf(out))
            IN \A k \in 1..Len(out) :
                  Exec(out, env, 1)[out[k].Lhs.ident] = Eval(out[k].Rhs, env)

----------------------------------------------------------------------------
(* C4.  A PHI whose predecessors are not those of its block.               *)

\* C4: when a PHI of the function does not name exactly the predecessors
\* of its block, funcDecl fails with MalformedInput: no outgoing value is
\* recorded in any block, no primitive is taken up, nothing is emitted.
C4_MismatchIsMalformedInput ==
    (fi <= Len(module) /\ pc \in {"phi", "prim", "delete", "panic", "fatal"}
        /\ ~WellFormed(f)) =>
        /\ \A l \in DOMAIN blocks : blocks[l].out = <<>>
        /\ pc \notin {"prim", "delete", "panic"}
        /\ pc = "fatal" => err.kind = "MalformedInput"

----------------------------------------------------------------------------
(* C9.  The outgoing values after PHI recording.                           *)

\* The (PHI, incoming value) pairs of a function: by block, then by
\* instruction, then by incoming value.
PhiPairs(fun) ==
    Flatten([b \in 1..Len(fun.Blocks) |->
        Flatten([k \in 1..Len(fun.Blocks[b].Insts) |->
            LET inst == fun.Blocks[b].Insts[k]
            IN IF IsPhi(inst)
               THEN [j \in 1..Len(inst.Incs) |-> [phi |-> inst, inc |-> inst.Incs[j]]]
               ELSE <<>>])])

\* One assignment for every pair whose predecessor is the block named l.
ExpectedOut(fun, l) ==
    LET sel == SelectSeq(PhiPairs(fun), LAMBDA q : q.inc.Pred = l)
    IN [k \in 1..Len(sel) |-> assignStmt(sel[k].phi, sel[k].inc)]

\* C9: after PHI recording of a well-formed function the outgoing values
\* of every block are the assignments of the (PHI, incoming value) pairs
\* naming that block, in block order and then PHI order; a block no PHI
\* names has none; instructions, terminator and statements of every block
\* are as seeded, during the recording and after it.
C9_PhiOutgoingBuffers ==
    (fi <= Len(module) /\ WellFormed(f)) =>
        /\ pc = "phi" =>
              /\ DOMAIN blocks = OrigLabels
              /\ \A l \in OrigLabels : [blocks[l] EXCEPT !.out = <<>>] = seed(f)[l]
        /\ AfterPhi =>
              /\ DOMAIN blocks = OrigLabels
              /\ \A l \in OrigLabels :
                    blocks[l] = [seed(f)[l] EXCEPT !.out = ExpectedOut(f, l)]

\* The blocks of fun that hold a PHI with an incoming value from block l.
PhiOwners(fun, l) ==
    {b \in 1..Len(fun.Blocks) :
        \E k \in 1..Len(fun.Blocks[b].Insts) :
            /\ IsPhi(fun.Blocks[b].Insts[k])
            /\ \E j \in 1..Len(fun.Blocks[b].Insts[k].Incs) :
                  fun.Blocks[b].Insts[k].Incs[j].Pred = l}

\* PHIs of two blocks name one predecessor: its outgoing values begin with
\* the assignment of the first PHI of the earlier block and end with that
\* of the last PHI of the later block; another block has outgoing values
\* of one block's PHIs, another none.
C9_Witness ==
    /\ fi <= Len(module)
    /\ WellFormed(f)
    /\ AfterPhi
    /\ \E l \in DOMAIN blocks : \E b1, b2 \in PhiOwners(f, l) :
          LET out == blocks[l].out
              last == f.Blocks[b2].Insts[MaxPhis]
          IN /\ b1 < b2
             /\ Len(out) = 2 * MaxPhis
             /\ IsPhi(last)
             /\ out[1].Lhs = local(f.Blocks[b1].Insts[1].Name)
             /\ out[MaxPhis + 1].Lhs = local(f.Blocks[b2].Insts[1].Name)
             /\ out[Len(out)].Lhs = local(last.Name)
    /\ \E l \in DOMAIN blocks : Cardinality(PhiOwners(f, l)) = 1
    /\ \E l \in DOMAIN blocks : blocks[l].out = <<>>
    /\ \E l \in DOMAIN blocks : blocks[l].Insts # <<>>

----------------------------------------------------------------------------
(* C5.  A primitive that names a block the registry does not hold.         *)

MemberMissing == \E l \in Members(pi) : l \notin DOMAIN blocks

\* C5: when a primitive is taken up and one of its member labels is not in
\* the registry, the step fails with UnresolvedReference: the registry is
\* left as it is, nothing is deleted, added or emitted.
C5_MissingMemberFails ==
    [][(pc = "prim" /\ pi <= Len(prims) /\ MemberMissing) =>
          /\ pc' = "fatal"
          /\ err'.kind = "UnresolvedReference"
          /\ err'.node \in Members(pi) \ DOMAIN blocks
          /\ blocks' = blocks
          /\ decls' = decls]_vars

\* A primitive names the block an earlier primitive consumed.
C5_Witness ==
    /\ pc = "fatal"
    /\ err.kind = "UnresolvedReference"
    /\ pi >= 2
    /\ err.node \in Members(pi) \cap Members(1)
    /\ freshLabel(Len(f.Blocks), 1) \in DOMAIN blocks

----------------------------------------------------------------------------
(* C6.  The order in which the maps are visited.                           *)

\* C6: whatever the order in which range visits prim.Nodes and d.blocks,
\* funcDecl gives what the function and the feed determine: the registry
\* after each primitive, the error of the function, the declarations.
C6_OrderIndependence ==
    /\ (fi <= Len(module) /\ pc = "prim") =>
          LET r == refReduce(refPhiBlocks(seed(f), f.Blocks, 1), Len(f.Blocks),
                             prims, pi - 1)
          IN r.ok /\ blocks = r.reg
    /\ FuncDeclFailed => refFuncDecl(f, prims) = [kind |-> "err", err |-> err]
    /\ pc = "panic" => refFuncDecl(f, prims).kind = "panic"
    /\ \A j \in 1..Len(decls) :
          refFuncDecl(module[j], feeds[j].prims) = [kind |-> "decl", fn |-> decls[j]]

\* A declaration with a body, recovered through a primitive of two nodes or
\* more, declared in another order than the block order.
C6_Witness ==
    /\ pc = "done"
    /\ Len(decls) = 1
    /\ decls[1].hasBody
    /\ Len(prims) = 1
    /\ Len(prims[1].Nodes) >= 2
    /\ prims[1].Nodes[1] # module[1].Blocks[1].Name

----------------------------------------------------------------------------
(* C7.  The body of the function.                                          *)

\* C7: the body is the statement buffer of the one remaining block, its
\* instruction statements and the statements of its merged regions, then
\* the statement of its terminator; for a single block and no primitive,
\* the instruction statements of the block, then the terminator statement.
C7_BodyIsBufferThenTerminator ==
    [][(pc = "prim" /\ decls' # decls) =>
          \A l \in DOMAIN blocks :
              /\ decls'[Len(decls')].hasBody
              /\ decls'[Len(decls')].Body =
                    insts(blocks[l].Insts) \o blocks[l].stmts \o <<term(blocks[l].Term)>>]_vars

----------------------------------------------------------------------------
(* C8.  A feed that cannot be read.                                        *)

Declared(j) == \E k \in 1..Len(decls) : decls[k].head.Name = global(module[j].Name)

\* Function k needs no feed, or has one with which funcDecl succeeds.
Translatable(k) ==
    \/ Len(module[k].Blocks) = 0
    \/ (feeds[k].ok /\ refFuncDecl(module[k], feeds[k].prims).kind = "decl")

\* C8 as stated: a feed that is absent or cannot be decoded fails its
\* function only; the other functions of the module that can be translated,
\* declarations without body among them, still get their declarations.
C8_FeedFailureIsPerFunction ==
    pc \in {"done", "fatal"} =>
        \A j, k \in 1..Len(module) :
            (j # k /\ ~feeds[j].ok /\ Translatable(k)) => Declared(k)

\* C8 amended: a feed that is absent or cannot be decoded is an error
\* (InputUnavailable) that ends ll2go at that function, a declaration
\* without body included: the function gets no declaration, the functions
\* before it have their declarations, in input order, and no function
\* after it is translated.
C8_FeedFailureEndsModule ==
    /\ \A j \in 1..Len(module) : ~feeds[j].ok => (Len(decls) < j /\ fi <= j /\ pc # "done")
    /\ (pc = "fatal" /\ err.kind = "InputUnavailable") =>
          /\ ~feeds[fi].ok
          /\ err.why = feeds[fi].why
          /\ Len(decls) = fi - 1
          /\ \A j \in 1..(fi - 1) : decls[j].head.Name = global(module[j].Name)

C8_Witness ==
    /\ pc = "fatal"
    /\ err.kind = "InputUnavailable"
    /\ fi = 2
    /\ Len(module) >= 2
    /\ Len(decls) = 1

----------------------------------------------------------------------------
(* C10.  What the merge of one primitive does to the registry.             *)

\* C10: the merge of a primitive removes the labels of its members, adds
\* one block under a label the registry did not hold, and leaves every
\* other entry of the registry as it was.
C10_MergeFrame ==
    [][(pc = "delete" /\ pc' = "prim") =>
          LET nodes == Members(pi)
              new == DOMAIN blocks' \ (DOMAIN before \ nodes)
          IN /\ DOMAIN before \ nodes \subseteq DOMAIN blocks'
             /\ nodes \cap DOMAIN blocks' = {}
             /\ Cardinality(new) = 1
             /\ new \cap DOMAIN before = {}
             /\ \A l \in new : blocks'[l].stmts = <<synth(before, prims[pi])>>
             /\ \A l \in DOMAIN before \ nodes : blocks'[l] = before[l]
             /\ Cardinality(DOMAIN blocks') =
                    Cardinality(DOMAIN before) - Cardinality(nodes) + 1]_vars

\* A merge of two members that leaves another block in the registry.
C10_Witness ==
    /\ pc = "prim"
    /\ pi = 2
    /\ Cardinality(Members(1)) = 2
    /\ Cardinality(DOMAIN before) = 3
    /\ Cardinality(DOMAIN blocks) = 2

====
